---- MODULE Spec2Model ----
(***************************************************************************)
(* Model of examples/auto-retry.py: the error classifier, the retry        *)
(* policy, the remote executor's normalisation of its outcomes, the        *)
(* attempt loop of run_with_retry and the output and exit status of main.  *)
(*                                                                         *)
(* Python values are modelled as follows.  Optional[T] is a sequence:      *)
(* <<>> is None and <<v>> is the value v.  A decoded JSON value is a       *)
(* tagged record: [t |-> "dict", v |-> d] for an object (d is a function   *)
(* from its keys to their values) and [t |-> k] for any other JSON value   *)
(* (k names the kind: "list", "null", ...).                                *)
(***************************************************************************)
EXTENDS Integers, Sequences, FiniteSets, TLC

VARIABLES
    pc,                  \* position of run_with_retry
    max_retries,         \* parameter
    base_delay,          \* parameter
    max_delay,           \* parameter
    attempt,             \* loop variable of line 167; 0 while it is unbound
    result,              \* <<>> or <<the value run_on_colab returned last>>
    last_error_code,     \* local of line 164
    last_error_message,  \* local of line 165
    ret,                 \* <<>> or <<the ExecutionResult returned>>
    raised,              \* <<>> or <<name of the exception that escaped>>
    trace,               \* history: the values run_on_colab returned, in order
    sleeps,              \* history: the arguments of time.sleep, in order
    verbose,             \* parameter
    log,                 \* the lines printed to sys.stderr, in order
    output,              \* <<>> or <<what main printed after the run>>
    exit_status,         \* <<>> or <<exit status of the process>>
    probe                \* one application of the pure functions

vars == <<pc, max_retries, base_delay, max_delay, attempt, result,
          last_error_code, last_error_message, ret, raised, trace, sleeps,
          verbose, log, output, exit_status, probe>>

runVars == <<pc, max_retries, base_delay, max_delay, attempt, result,
             last_error_code, last_error_message, ret, raised, trace, sleeps,
             verbose, log, output, exit_status>>

-----------------------------------------------------------------------------
(* Bounds of the model *)

MaxRetries == 5        \* max_retries is drawn from -1 .. MaxRetries
MaxProbe == 11         \* the probes draw attempt and max_retries from -1 .. MaxProbe
MaxBaseDelay == 3      \* the backoff probe draws base_delay from -1 .. MaxBaseDelay

-----------------------------------------------------------------------------
(* Error categories and code sets, lines 27-55 *)

TRANSIENT == "transient"
RESOURCE == "resource"
CODE == "code"
AUTH == "auth"
UNKNOWN == "unknown"

ErrorCategory == {TRANSIENT, RESOURCE, CODE, AUTH, UNKNOWN}

TRANSIENT_ERROR_CODES == {1101, 1103, 1105, 1401, 1402}

RESOURCE_ERROR_CODES == {1104, 1204}

NON_RETRYABLE_CODES == {1001, 1002, 1003, 1004, 1201, 1202, 1205, 1206}

-----------------------------------------------------------------------------
(* categorize_error, lines 71-80 *)

categorize_error_threshold_mutant(error_code) ==
    IF error_code \in TRANSIENT_ERROR_CODES THEN TRANSIENT
    ELSE IF error_code \in RESOURCE_ERROR_CODES THEN RESOURCE
    ELSE IF error_code \in NON_RETRYABLE_CODES
         THEN (IF error_code > 1201 THEN CODE ELSE AUTH)
    ELSE UNKNOWN

categorize_error(error_code) ==
    IF error_code \in TRANSIENT_ERROR_CODES THEN TRANSIENT
    ELSE IF error_code \in RESOURCE_ERROR_CODES THEN RESOURCE
    ELSE IF error_code \in NON_RETRYABLE_CODES
         THEN (IF error_code >= 1200 THEN CODE ELSE AUTH)
    ELSE UNKNOWN

-----------------------------------------------------------------------------
(* should_retry, lines 83-97 *)

should_retry_ceiling_mutant(error_code, att, maxr) ==
    IF att > maxr THEN FALSE
    ELSE LET category == categorize_error(error_code) IN
         IF category = TRANSIENT THEN TRUE
         ELSE IF category = RESOURCE THEN att < 3
         ELSE IF category = UNKNOWN THEN att < 2
         ELSE FALSE

should_retry_resource_mutant(error_code, att, maxr) ==
    IF att >= maxr THEN FALSE
    ELSE LET category == categorize_error(error_code) IN
         IF category = TRANSIENT THEN TRUE
         ELSE IF category = RESOURCE THEN att <= 3
         ELSE IF category = UNKNOWN THEN att < 2
         ELSE FALSE

should_retry_unknown_mutant(error_code, att, maxr) ==
    IF att >= maxr THEN FALSE
    ELSE LET category == categorize_error(error_code) IN
         IF category = TRANSIENT THEN TRUE
         ELSE IF category = RESOURCE THEN att < 3
         ELSE IF category = UNKNOWN THEN att < 3
         ELSE FALSE

should_retry_nonretryable_mutant(error_code, att, maxr) ==
    IF att >= maxr THEN FALSE
    ELSE LET category == categorize_error(error_code) IN
         IF category = TRANSIENT THEN TRUE
         ELSE IF category = RESOURCE THEN att < 3
         ELSE att < 2

should_retry_transient_capped_mutant(error_code, att, maxr) ==
    IF att >= maxr THEN FALSE
    ELSE LET category == categorize_error(error_code) IN
         IF category \in {TRANSIENT, RESOURCE} THEN att < 3
         ELSE IF category = UNKNOWN THEN att < 2
         ELSE FALSE

should_retry(error_code, att, maxr) ==
    IF att >= maxr THEN FALSE
    ELSE LET category == categorize_error(error_code) IN
         IF category = TRANSIENT THEN TRUE
         ELSE IF category = RESOURCE THEN att < 3
         ELSE IF category = UNKNOWN THEN att < 2
         ELSE FALSE

-----------------------------------------------------------------------------
(* Python values *)

None == <<>>
Some(v) == <<v>>

JDict(d) == [t |-> "dict", v |-> d]
JOther(k) == [t |-> k]
IsDict(j) == j.t = "dict"

\* dict.get(key, default)
Get(d, key, default) == IF key \in DOMAIN d THEN d[key] ELSE default

\* the empty dict {}
EmptyDict == [k \in {} |-> 0]

-----------------------------------------------------------------------------
(* ExecutionResult, lines 58-68 *)

ExecutionResult(success, res, out, err, execution_time, error_code, error_message, attempts) ==
    [success |-> success, result |-> res, stdout |-> out, stderr |-> err,
     execution_time |-> execution_time, error_code |-> error_code,
     error_message |-> error_message, attempts |-> attempts]

-----------------------------------------------------------------------------
(* The ways one invocation of the external command can end, and the JSON   *)
(* documents the command may print.  A captured stdout is a document:      *)
(* [valid |-> TRUE, value |-> j] is a text that json.loads decodes to j,   *)
(* [valid |-> FALSE, text |-> s] is a text s on which json.loads raises    *)
(* JSONDecodeError.                                                        *)

RunCodes == {1101, 1104, 1001, 1201, 1203, 0}

Messages == {"m1", "m2"}

ErrorObject(c, m) == JDict([code |-> c, message |-> m])

FailureResponse(c, m) == JDict([success |-> FALSE, error |-> ErrorObject(c, m)])

SuccessResponses ==
    { JDict([success |-> TRUE, result |-> "42", stdout |-> "out",
             stderr |-> "warn", executionTime |-> 2]),
      JDict([success |-> TRUE]) }

FailureResponses == { FailureResponse(c, m) : c \in RunCodes, m \in Messages }

\* an error code that is a JSON list or object: Python cannot hash it, so
\* "code in SET" raises TypeError.  The model writes it as an integer no
\* response of the collaborator carries.
UnhashableCode == -1

Hashable(code) == code # UnhashableCode

\* responses that decode as JSON but lack the expected shape
OddResponses ==
    { JDict([success |-> FALSE]),
      JDict(EmptyDict),
      JDict([success |-> FALSE, error |-> JDict([code |-> 1104])]),
      JDict([success |-> FALSE, error |-> JDict([message |-> "m1"])]),
      JDict([success |-> FALSE, error |-> ErrorObject(1104, "")]),
      JDict([success |-> FALSE, error |-> ErrorObject(UnhashableCode, "m1")]),
      JDict([success |-> FALSE, error |-> JOther("str")]),
      JOther("list") }

JsonValues == SuccessResponses \cup FailureResponses \cup OddResponses

Endings ==
    { [kind |-> "timeout"],
      [kind |-> "exception", text |-> "No such file or directory"],
      [kind |-> "exit", stdout |-> [valid |-> FALSE, text |-> "<html>"],
       stderr |-> "crash"] }
    \cup { [kind |-> "exit", stdout |-> [valid |-> TRUE, value |-> j],
            stderr |-> ""] : j \in JsonValues }

-----------------------------------------------------------------------------
(* run_on_colab, lines 100-147 *)

TimeoutCode == 1203
StdoutPrefixLen == 200

Min(a, b) == IF a <= b THEN a ELSE b

\* result.stdout[:200]
StdoutPrefix(s) == SubSeq(s, 1, Min(StdoutPrefixLen, Len(s)))

\* lines 100-147 with the timeout reported under code 1101 (connection timeout)
run_on_colab_timeout_1101_mutant(ending) ==
    CASE ending.kind = "timeout" ->
           JDict([success |-> FALSE,
                  error |-> JDict([code |-> 1101,
                                   message |-> "Execution timeout"])])
      [] ending.kind = "exception" ->
           JDict([success |-> FALSE,
                  error |-> JDict([code |-> 0, message |-> ending.text])])
      [] ending.kind = "exit" ->
           IF ending.stdout.valid
           THEN ending.stdout.value
           ELSE JDict([success |-> FALSE,
                       error |-> JDict([code |-> 0,
                                        message |-> "Invalid JSON response: "
                                           \o StdoutPrefix(ending.stdout.text)]),
                       stderr |-> ending.stderr])

\* lines 100-147 with the handlers of lines 133-147 returning no error object
run_on_colab_bare_failure_mutant(ending) ==
    CASE ending.kind = "timeout" -> JDict([success |-> FALSE])
      [] ending.kind = "exception" -> JDict([success |-> FALSE])
      [] ending.kind = "exit" ->
           IF ending.stdout.valid
           THEN ending.stdout.value
           ELSE JDict([success |-> FALSE,
                       error |-> JDict([code |-> 0,
                                        message |-> "Invalid JSON response: "
                                           \o StdoutPrefix(ending.stdout.text)]),
                       stderr |-> ending.stderr])

run_on_colab(ending) ==
    CASE ending.kind = "timeout" ->
           JDict([success |-> FALSE,
                  error |-> JDict([code |-> TimeoutCode,
                                   message |-> "Execution timeout"])])
      [] ending.kind = "exception" ->
           JDict([success |-> FALSE,
                  error |-> JDict([code |-> 0, message |-> ending.text])])
      [] ending.kind = "exit" ->
           IF ending.stdout.valid
           THEN ending.stdout.value
           ELSE JDict([success |-> FALSE,
                       error |-> JDict([code |-> 0,
                                        message |-> "Invalid JSON response: "
                                           \o StdoutPrefix(ending.stdout.text)]),
                       stderr |-> ending.stderr])

-----------------------------------------------------------------------------
(* run_with_retry, lines 150-216 *)

\* lines 174-181 with attempts left at the dataclass default of line 68
SuccessResult_default_attempts_mutant(d, att) ==
    ExecutionResult(TRUE,
                    IF "result" \in DOMAIN d THEN Some(d["result"]) ELSE None,
                    Get(d, "stdout", ""),
                    Get(d, "stderr", ""),
                    Get(d, "executionTime", 0),
                    None, None, 1)

\* lines 174-181 with the captured streams left at their defaults
SuccessResult_no_streams_mutant(d, att) ==
    ExecutionResult(TRUE,
                    IF "result" \in DOMAIN d THEN Some(d["result"]) ELSE None,
                    "", "",
                    Get(d, "executionTime", 0),
                    None, None, att)

\* lines 174-181
SuccessResult(d, att) ==
    ExecutionResult(TRUE,
                    IF "result" \in DOMAIN d THEN Some(d["result"]) ELSE None,
                    Get(d, "stdout", ""),
                    Get(d, "stderr", ""),
                    Get(d, "executionTime", 0),
                    None, None, att)

\* lines 211-216
FailureResult(code, message, att) ==
    ExecutionResult(FALSE, None, "", "", 0, Some(code), Some(message), att)

\* line 203 with the exponent of the docstring of line 162
BackoffDelay_docstring_mutant(att, base, maxd) == Min(base * (2 ^ att), maxd)

\* line 203 without the cap
BackoffDelay_uncapped_mutant(att, base, maxd) == base * (2 ^ (att - 1))

\* line 203
\* line 203 replaced by the formula of the docstring, line 162
BackoffDelay_as_docstring_mutant(att, base, maxd) == base * (2 ^ att)

BackoffDelay(att, base, maxd) == Min(base * (2 ^ (att - 1)), maxd)

DelayParams == { <<1, 60>>, <<1, 4>>, <<-1, 60>> }

RunInit ==
    /\ pc = "Idle"
    /\ max_retries \in -1 .. MaxRetries
    /\ \E p \in DelayParams : base_delay = p[1] /\ max_delay = p[2]
    /\ attempt = 0
    /\ result = None
    /\ last_error_code = 0
    /\ last_error_message = ""
    /\ ret = None
    /\ raised = None
    /\ trace = <<>>
    /\ sleeps = <<>>
    /\ verbose \in BOOLEAN
    /\ log = <<>>
    /\ output = None
    /\ exit_status = None

\* line 167, first evaluation of range(1, max_retries + 1); with an empty
\* range control reaches line 215, which reads the unbound name attempt
Start ==
    /\ pc = "Idle"
    /\ IF max_retries >= 1
       THEN /\ attempt' = 1
            /\ pc' = "Attempting"
            /\ raised' = raised
       ELSE /\ attempt' = attempt
            /\ pc' = "Raised"
            /\ raised' = Some("UnboundLocalError")
    /\ UNCHANGED <<max_retries, base_delay, max_delay, result,
                   last_error_code, last_error_message, ret, trace, sleeps,
                   verbose, log, output, exit_status, probe>>

\* line 173: result.get("success")
ResponseSucceeded(r) == Get(r.v, "success", FALSE)

\* line 184: result.get("error", {})
ResponseError(r) == Get(r.v, "error", JDict(EmptyDict))

\* line 185: error.get("code", 0)
ErrorCodeOf(error) == Get(error.v, "code", 0)

\* line 186: error.get("message", "Unknown error")
ErrorMessageOf(error) == Get(error.v, "message", "Unknown error")

\* the lines run_with_retry prints to sys.stderr when verbose
\* line 169
AttemptLine(att, maxr) == [line |-> "Attempt", attempt |-> att, max_retries |-> maxr]

\* lines 189-194
ErrorLine(code, message) == [line |-> "Error", code |-> code, category |-> categorize_error(code), message |-> message]

\* line 199
NotRetryingLine == [line |-> "Not retrying (non-retryable error)"]

\* line 206
RetryingLine(delay) == [line |-> "Retrying in", delay |-> delay]

\* lines 167-194 with the bug of keeping the first error once one is recorded
Attempt_keep_first_error_mutant ==
    /\ pc = "Attempting"
    /\ \E ending \in Endings :
         LET r == run_on_colab(ending)
             started == IF verbose THEN Append(log, AttemptLine(attempt, max_retries))
                        ELSE log
         IN
         /\ result' = Some(r)
         /\ trace' = Append(trace, r)
         /\ IF ~IsDict(r)
            THEN \* result.get on a value that is not a dict
                 /\ pc' = "Raised"
                 /\ raised' = Some("AttributeError")
                 /\ log' = started
                 /\ UNCHANGED <<ret, last_error_code, last_error_message>>
            ELSE IF ResponseSucceeded(r)
            THEN /\ pc' = "Succeeded"
                 /\ ret' = Some(SuccessResult(r.v, attempt))
                 /\ log' = started
                 /\ UNCHANGED <<raised, last_error_code, last_error_message>>
            ELSE LET error == ResponseError(r) IN
                 IF ~IsDict(error)
                 THEN \* error.get on a value that is not a dict
                      /\ pc' = "Raised"
                      /\ raised' = Some("AttributeError")
                      /\ log' = started
                      /\ UNCHANGED <<ret, last_error_code, last_error_message>>
                 ELSE /\ IF last_error_message = ""
                         THEN /\ last_error_code' = ErrorCodeOf(error)
                              /\ last_error_message' = ErrorMessageOf(error)
                         ELSE UNCHANGED <<last_error_code, last_error_message>>
                      /\ IF verbose /\ ~Hashable(last_error_code')
                         THEN \* line 189: categorize_error on an unhashable code
                              /\ pc' = "Raised"
                              /\ raised' = Some("TypeError")
                              /\ log' = started
                              /\ ret' = ret
                         ELSE /\ log' = IF verbose
                                        THEN Append(started, ErrorLine(last_error_code', last_error_message'))
                                        ELSE started
                              /\ pc' = "Deciding"
                              /\ UNCHANGED <<ret, raised>>
    /\ UNCHANGED <<max_retries, base_delay, max_delay, attempt, sleeps,
                   verbose, output, exit_status, probe>>

\* lines 168-194: the body of the loop up to the extraction of the error
Attempt ==
    /\ pc = "Attempting"
    /\ \E ending \in Endings :
         LET r == run_on_colab(ending)
             started == IF verbose THEN Append(log, AttemptLine(attempt, max_retries))
                        ELSE log
         IN
         /\ result' = Some(r)
         /\ trace' = Append(trace, r)
         /\ IF ~IsDict(r)
            THEN \* result.get on a value that is not a dict
                 /\ pc' = "Raised"
                 /\ raised' = Some("AttributeError")
                 /\ log' = started
                 /\ UNCHANGED <<ret, last_error_code, last_error_message>>
            ELSE IF ResponseSucceeded(r)
            THEN /\ pc' = "Succeeded"
                 /\ ret' = Some(SuccessResult(r.v, attempt))
                 /\ log' = started
                 /\ UNCHANGED <<raised, last_error_code, last_error_message>>
            ELSE LET error == ResponseError(r) IN
                 IF ~IsDict(error)
                 THEN \* error.get on a value that is not a dict
                      /\ pc' = "Raised"
                      /\ raised' = Some("AttributeError")
                      /\ log' = started
                      /\ UNCHANGED <<ret, last_error_code, last_error_message>>
                 ELSE /\ last_error_code' = ErrorCodeOf(error)
                      /\ last_error_message' = ErrorMessageOf(error)
                      /\ IF verbose /\ ~Hashable(last_error_code')
                         THEN \* line 189: categorize_error on an unhashable code
                              /\ pc' = "Raised"
                              /\ raised' = Some("TypeError")
                              /\ log' = started
                              /\ ret' = ret
                         ELSE /\ log' = IF verbose
                                        THEN Append(started, ErrorLine(last_error_code', last_error_message'))
                                        ELSE started
                              /\ pc' = "Deciding"
                              /\ UNCHANGED <<ret, raised>>
    /\ UNCHANGED <<max_retries, base_delay, max_delay, attempt, sleeps,
                   verbose, output, exit_status, probe>>

\* lines 197-208 with the sleep of lines 202-208 moved above the check of
\* line 197
Decide_sleep_before_check_mutant ==
    /\ pc = "Deciding"
    /\ LET delay == BackoffDelay(attempt, base_delay, max_delay) IN
       IF delay < 0
       THEN /\ pc' = "Raised"
            /\ raised' = Some("ValueError")
            /\ log' = IF verbose THEN Append(log, RetryingLine(delay)) ELSE log
            /\ UNCHANGED <<ret, sleeps>>
       ELSE /\ sleeps' = Append(sleeps, delay)
            /\ IF ~should_retry(last_error_code, attempt, max_retries)
               THEN /\ pc' = "Failed"
                    /\ ret' = Some(FailureResult(last_error_code,
                                                 last_error_message, attempt))
                    /\ log' = IF verbose
                              THEN log \o <<RetryingLine(delay), NotRetryingLine>>
                              ELSE log
                    /\ raised' = raised
               ELSE /\ pc' = "Backoff"
                    /\ log' = IF verbose THEN Append(log, RetryingLine(delay))
                              ELSE log
                    /\ UNCHANGED <<ret, raised>>
    /\ UNCHANGED <<max_retries, base_delay, max_delay, attempt, result,
                   last_error_code, last_error_message, trace, verbose,
                   output, exit_status, probe>>

\* the number of calls so far that failed with a code of the category
FailuresOfCategory(category) ==
    Cardinality({ k \in 1 .. Len(trace) :
                    categorize_error(ErrorCodeOf(ResponseError(trace[k])))
                        = category })

\* lines 197-208 with the caps of lines 93 and 95 applied to the number of
\* failures of the category instead of the attempt index
Decide_cap_per_category_mutant ==
    /\ pc = "Deciding"
    /\ LET category == categorize_error(last_error_code)
           retry == /\ attempt < max_retries
                    /\ \/ category = TRANSIENT
                       \/ category = RESOURCE /\ FailuresOfCategory(RESOURCE) < 3
                       \/ category = UNKNOWN /\ FailuresOfCategory(UNKNOWN) < 2
       IN
       IF ~retry
       THEN /\ pc' = "Failed"
            /\ ret' = Some(FailureResult(last_error_code, last_error_message,
                                         attempt))
            /\ log' = IF verbose THEN Append(log, NotRetryingLine) ELSE log
            /\ UNCHANGED <<raised, sleeps>>
       ELSE LET delay == BackoffDelay(attempt, base_delay, max_delay) IN
            /\ log' = IF verbose THEN Append(log, RetryingLine(delay)) ELSE log
            /\ IF delay < 0
               THEN /\ pc' = "Raised"
                    /\ raised' = Some("ValueError")
                    /\ UNCHANGED <<ret, sleeps>>
               ELSE /\ pc' = "Backoff"
                    /\ sleeps' = Append(sleeps, delay)
                    /\ UNCHANGED <<ret, raised>>
    /\ UNCHANGED <<max_retries, base_delay, max_delay, attempt, result,
                   last_error_code, last_error_message, trace, verbose,
                   output, exit_status, probe>>

\* lines 197-208, up to the call of time.sleep, and lines 211-216 after break
Decide ==
    /\ pc = "Deciding"
    /\ IF attempt < max_retries /\ ~Hashable(last_error_code)
       THEN \* line 88: categorize_error on an unhashable code
            /\ pc' = "Raised"
            /\ raised' = Some("TypeError")
            /\ UNCHANGED <<ret, sleeps, log>>
       ELSE IF ~should_retry(last_error_code, attempt, max_retries)
       THEN /\ pc' = "Failed"
            /\ ret' = Some(FailureResult(last_error_code, last_error_message,
                                         attempt))
            /\ log' = IF verbose THEN Append(log, NotRetryingLine) ELSE log
            /\ UNCHANGED <<raised, sleeps>>
       ELSE LET delay == BackoffDelay(attempt, base_delay, max_delay) IN
            /\ log' = IF verbose THEN Append(log, RetryingLine(delay)) ELSE log
            /\ IF delay < 0
               THEN \* time.sleep raises ValueError on a negative length
                    /\ pc' = "Raised"
                    /\ raised' = Some("ValueError")
                    /\ UNCHANGED <<ret, sleeps>>
               ELSE /\ pc' = "Backoff"
                    /\ sleeps' = Append(sleeps, delay)
                    /\ UNCHANGED <<ret, raised>>
    /\ UNCHANGED <<max_retries, base_delay, max_delay, attempt, result,
                   last_error_code, last_error_message, trace, verbose,
                   output, exit_status, probe>>

\* line 167 as a loop that repeats the attempt without advancing its index
Wake_same_index_mutant ==
    /\ pc = "Backoff"
    /\ attempt' = attempt
    /\ pc' = "Attempting"
    /\ ret' = ret
    /\ UNCHANGED <<max_retries, base_delay, max_delay, result,
                   last_error_code, last_error_message, raised, trace, sleeps,
                   verbose, log, output, exit_status, probe>>

\* line 167 with range(1, max_retries + 1, 2)
Wake_step_two_mutant ==
    /\ pc = "Backoff"
    /\ IF attempt + 2 <= max_retries
       THEN /\ attempt' = attempt + 2
            /\ pc' = "Attempting"
            /\ ret' = ret
       ELSE /\ attempt' = attempt
            /\ pc' = "Failed"
            /\ ret' = Some(FailureResult(last_error_code, last_error_message,
                                         attempt))
    /\ UNCHANGED <<max_retries, base_delay, max_delay, result,
                   last_error_code, last_error_message, raised, trace, sleeps,
                   verbose, log, output, exit_status, probe>>

\* time.sleep returns and the for statement of line 167 takes its next value;
\* when the range is exhausted control reaches lines 211-216
Wake ==
    /\ pc = "Backoff"
    /\ IF attempt + 1 <= max_retries
       THEN /\ attempt' = attempt + 1
            /\ pc' = "Attempting"
            /\ ret' = ret
       ELSE /\ attempt' = attempt
            /\ pc' = "Failed"
            /\ ret' = Some(FailureResult(last_error_code, last_error_message,
                                         attempt))
    /\ UNCHANGED <<max_retries, base_delay, max_delay, result,
                   last_error_code, last_error_message, raised, trace, sleeps,
                   verbose, log, output, exit_status, probe>>

-----------------------------------------------------------------------------
(* main, lines 277-326: the call of run_with_retry is the run above; what   *)
(* follows it reads args.json, which nothing before line 288 reads, so the  *)
(* model draws it there.                                                    *)

\* lines 289-301 with the payload keys written for a success only
JsonOutput_payload_on_success_mutant(r) ==
    IF r.success
    THEN [success |-> r.success, result |-> r.result, stdout |-> r.stdout,
          stderr |-> r.stderr, executionTime |-> r.execution_time,
          attempts |-> r.attempts]
    ELSE [success |-> r.success, attempts |-> r.attempts,
          error |-> [code |-> r.error_code, message |-> r.error_message]]

\* lines 289-301
JsonOutput(r) ==
    IF r.success
    THEN [success |-> r.success, result |-> r.result, stdout |-> r.stdout,
          stderr |-> r.stderr, executionTime |-> r.execution_time,
          attempts |-> r.attempts]
    ELSE [success |-> r.success, result |-> r.result, stdout |-> r.stdout,
          stderr |-> r.stderr, executionTime |-> r.execution_time,
          attempts |-> r.attempts,
          error |-> [code |-> r.error_code, message |-> r.error_message]]

\* lines 305-308: what print writes to sys.stdout
TextOutput(r) ==
    (IF r.stdout # "" THEN <<[line |-> "stdout", text |-> r.stdout]>> ELSE <<>>)
    \o (IF r.result # None /\ r.result # <<"">>
        THEN <<[line |-> "Result", text |-> r.result[1]]>> ELSE <<>>)

\* lines 309-314
CompletedLine(r) == [line |-> "Completed", execution_time |-> r.execution_time, attempts |-> r.attempts]

\* lines 316-325
FailureLines(r, verb) ==
    <<[line |-> "Error", message |-> r.error_message]>>
    \o (IF verb
        THEN <<[line |-> "Error code", code |-> r.error_code],
               [line |-> "Attempts", attempts |-> r.attempts]>>
        ELSE <<>>)

\* lines 303-326: sys.exit(1) on the failure branch, a normal return otherwise
TextExitStatus(r) == IF r.success THEN 0 ELSE 1

\* lines 287-326, and the exit of the interpreter when the exception of
\* run_with_retry, which main does not catch, ends the process
MainExit ==
    /\ pc \in {"Succeeded", "Failed", "Raised"}
    /\ exit_status = None
    /\ IF pc = "Raised"
       THEN /\ output' = output
            /\ log' = Append(log, [line |-> "Traceback", exception |-> raised[1]])
            /\ exit_status' = Some(1)
       ELSE \E json \in BOOLEAN :
              IF json
              THEN /\ output' = Some([mode |-> "json", doc |-> JsonOutput(ret[1])])
                   /\ log' = log
                   /\ exit_status' = Some(0)
              ELSE /\ output' = Some([mode |-> "text",
                                      lines |-> IF ret[1].success
                                                THEN TextOutput(ret[1])
                                                ELSE <<>>])
                   /\ log' = IF ret[1].success
                             THEN (IF verbose
                                   THEN Append(log, CompletedLine(ret[1]))
                                   ELSE log)
                             ELSE log \o FailureLines(ret[1], verbose)
                   /\ exit_status' = Some(TextExitStatus(ret[1]))
    /\ UNCHANGED <<pc, max_retries, base_delay, max_delay, attempt, result,
                   last_error_code, last_error_message, ret, raised, trace,
                   sleeps, verbose, probe>>

-----------------------------------------------------------------------------
(* Single applications of categorize_error and should_retry *)

ProbeCodes ==
    (-1 .. 1) \cup (1000 .. 1005) \cup (1100 .. 1106) \cup (1199 .. 1207)
       \cup (1400 .. 1403)

NoProbe == [pc |-> "off", code |-> 0, attempt |-> 0, max_retries |-> 0,
            category |-> "", retry |-> FALSE]

ProbeInit ==
    probe \in [pc : {"ready"}, code : ProbeCodes, attempt : -1 .. MaxProbe,
               max_retries : -1 .. MaxProbe, category : {""}, retry : {FALSE}]

ProbeCategorize ==
    /\ probe.pc = "ready"
    /\ probe' = [probe EXCEPT !.pc = "categorized",
                              !.category = categorize_error(probe.code)]
    /\ UNCHANGED runVars

ProbeShouldRetry ==
    /\ probe.pc = "categorized"
    /\ probe' = [probe EXCEPT !.pc = "decided",
                              !.retry = should_retry(probe.code, probe.attempt,
                                                     probe.max_retries)]
    /\ UNCHANGED runVars

-----------------------------------------------------------------------------
(* The delays of lines 203-208 for attempts 1, 2, ... of one run in which   *)
(* every attempt is retried: probe.delays are the arguments time.sleep      *)
(* accepted, in order.                                                      *)

ProbeMaxDelays == {-1, 0, 1, 4, 60}

BackoffProbeInit ==
    probe \in [pc : {"ready"}, base_delay : -1 .. MaxBaseDelay,
               max_delay : ProbeMaxDelays, delays : {<<>>}]

ProbeBackoff ==
    /\ probe.pc = "ready"
    /\ Len(probe.delays) < MaxProbe
    /\ LET delay == BackoffDelay(Len(probe.delays) + 1, probe.base_delay,
                                 probe.max_delay) IN
       IF delay < 0
       THEN \* time.sleep raises ValueError on a negative length
            probe' = [probe EXCEPT !.pc = "raised"]
       ELSE probe' = [probe EXCEPT !.delays = Append(@, delay)]
    /\ UNCHANGED runVars

\* the ways subprocess.run and json.loads can end, for the executor alone
RECURSIVE Repeat(_, _)
Repeat(s, n) == IF n = 0 THEN "" ELSE s \o Repeat(s, n - 1)

LongStdout == Repeat("0123456789", 20) \o "tail"

ExceptionTexts ==
    { "No such file or directory", "Permission denied",
      "embedded null byte", "invalid start byte" }

InvalidStdouts == { "", "<html>", "{\"success\": tru", LongStdout }

Stderrs == { "", "crash", "warn" }

ExecutorEndings ==
    { [kind |-> "timeout"] }
    \cup { [kind |-> "exception", text |-> t] : t \in ExceptionTexts }
    \cup { [kind |-> "exit", stdout |-> [valid |-> FALSE, text |-> t],
            stderr |-> e] : t \in InvalidStdouts, e \in Stderrs }
    \cup { [kind |-> "exit", stdout |-> [valid |-> TRUE, value |-> j],
            stderr |-> e] : j \in JsonValues, e \in Stderrs }

ExecutorProbeInit ==
    probe \in [pc : {"ready"}, ending : ExecutorEndings, out : {None}]

ProbeExecutor ==
    /\ probe.pc = "ready"
    /\ probe' = [probe EXCEPT !.pc = "returned",
                              !.out = Some(run_on_colab(probe.ending))]
    /\ UNCHANGED runVars

-----------------------------------------------------------------------------
(* run_experiment of notebook-automation.py, lines 146-217, with the       *)
(* functions it calls.  The probe holds its locals: the stage about to run, *)
(* cleanup_code, the commands run so far with what run_command returned,    *)
(* and the fields of the results dict.                                      *)

\* run_command, lines 43-65, once subprocess.run has returned
run_command(exit, json_output) ==
    IF json_output
    THEN IF exit.stdout.valid
         THEN exit.stdout.value
         ELSE JDict([success |-> FALSE,
                     error |-> JDict([message |-> "Invalid JSON: "
                                         \o StdoutPrefix(exit.stdout.text)]),
                     stderr |-> exit.stderr])
    ELSE JDict([success |-> (exit.returncode = 0), stdout |-> exit.stdout,
                stderr |-> exit.stderr])

JsonExit(j) == [returncode |-> 0, stdout |-> [valid |-> TRUE, value |-> j], stderr |-> ""]

TextExit(code, text, err) == [returncode |-> code, stdout |-> [valid |-> FALSE, text |-> text], stderr |-> err]

\* what "lecoder-cgpu status --json" may print
StatusExits ==
    { JsonExit(JDict([connected |-> TRUE, runtime |-> JDict([gpu |-> "T4"])])),
      JsonExit(JDict([connected |-> TRUE])),
      JsonExit(JDict([connected |-> TRUE, runtime |-> JOther("str")])),
      JsonExit(JDict([connected |-> FALSE])),
      JsonExit(JDict(EmptyDict)),
      JsonExit(JOther("list")),
      TextExit(1, "not logged in", "auth") }

\* how "lecoder-cgpu connect --gpu GPU" may end
ConnectExits == { TextExit(0, "Connected", ""), TextExit(1, "", "quota") }

\* what "lecoder-cgpu run --kernel --timeout T CODE --json" may print
CellExits ==
    { JsonExit(j) : j \in
        { JDict([success |-> TRUE, result |-> "42", stdout |-> "out",
                 executionTime |-> 2]),
          JDict([success |-> TRUE]),
          FailureResponse(1001, "m1"),
          JDict([success |-> FALSE]),
          JDict(EmptyDict),
          JDict([success |-> FALSE, error |-> JOther("str")]),
          JOther("list") } }
    \cup { TextExit(1, "<html>", "crash") }

CleanupCodes == { None, Some(""), Some("del model") }

\* the f-string of lines 189 and 203: error.get('message') formatted
MessageText(error) ==
    IF "message" \in DOMAIN error.v THEN error.v.message ELSE "None"

\* lines 183-186 and 211-214
StageEntry(stage, r) == [stage |-> stage, success |-> Get(r.v, "success", FALSE), time |-> Get(r.v, "executionTime", 0)]

Call(stage, r) == [stage |-> stage, response |-> r]

ExperimentProbeInit ==
    probe \in [pc : {"connect"}, cleanup_code : CleanupCodes,
               calls : {<<>>}, stages : {<<>>}, success : {FALSE},
               error : {None}, exception : {None}]

Raise(p, exception) == [p EXCEPT !.pc = "raised", !.exception = Some(exception)]

\* line 176 with ensure_connected, lines 68-84
Connect ==
    /\ probe.pc = "connect"
    /\ \E s \in StatusExits :
         LET status == run_command(s, TRUE)
             asked == [probe EXCEPT !.calls = Append(@, Call("status", status))]
         IN
         IF ~IsDict(status)
         THEN probe' = Raise(asked, "AttributeError")
         ELSE IF Get(status.v, "connected", FALSE)
         THEN IF ~IsDict(Get(status.v, "runtime", JDict(EmptyDict)))
              THEN probe' = Raise(asked, "AttributeError")
              ELSE probe' = [asked EXCEPT !.pc = "setup"]
         ELSE \E c \in ConnectExits :
                LET connect_result == run_command(c, FALSE)
                    tried == [asked EXCEPT !.calls = Append(@, Call("connect", connect_result))]
                IN
                IF connect_result.v.success
                THEN probe' = [tried EXCEPT !.pc = "setup"]
                ELSE probe' = [tried EXCEPT !.pc = "returned",
                                            !.error = Some("Failed to connect")]
    /\ UNCHANGED runVars

\* lines 181-190
Setup ==
    /\ probe.pc = "setup"
    /\ \E e \in CellExits :
         LET setup_result == run_command(e, TRUE)
             called == [probe EXCEPT !.calls = Append(@, Call("setup", setup_result))]
         IN
         IF ~IsDict(setup_result)
         THEN probe' = Raise(called, "AttributeError")
         ELSE LET staged == [called EXCEPT !.stages = Append(@, StageEntry("setup", setup_result))] IN
              IF ~Get(setup_result.v, "success", FALSE)
              THEN IF ~IsDict(ResponseError(setup_result))
                   THEN probe' = Raise(staged, "AttributeError")
                   ELSE probe' = [staged EXCEPT
                                    !.pc = "returned",
                                    !.error = Some("Setup failed: " \o MessageText(ResponseError(setup_result)))]
              ELSE probe' = [staged EXCEPT !.pc = "experiment"]
    /\ UNCHANGED runVars

\* line 208: if cleanup_code
CleanupGiven(p) == p.cleanup_code # None /\ p.cleanup_code # Some("")

\* lines 193-208 and, without cleanup code, lines 216-217
Experiment ==
    /\ probe.pc = "experiment"
    /\ \E e \in CellExits :
         LET exp_result == run_command(e, TRUE)
             called == [probe EXCEPT !.calls = Append(@, Call("experiment", exp_result))]
             after == IF CleanupGiven(probe) THEN "cleanup" ELSE "returned"
         IN
         IF ~IsDict(exp_result)
         THEN probe' = Raise(called, "AttributeError")
         ELSE LET staged == [called EXCEPT !.stages = Append(@, StageEntry("experiment", exp_result))] IN
              IF ~Get(exp_result.v, "success", FALSE)
              THEN IF ~IsDict(ResponseError(exp_result))
                   THEN probe' = Raise(staged, "AttributeError")
                   ELSE probe' = [staged EXCEPT
                                    !.pc = after,
                                    !.error = Some("Experiment failed: " \o MessageText(ResponseError(exp_result)))]
              ELSE probe' = [staged EXCEPT !.pc = after, !.success = TRUE]
    /\ UNCHANGED runVars

\* lines 209-217
Cleanup ==
    /\ probe.pc = "cleanup"
    /\ \E e \in CellExits :
         LET cleanup_result == run_command(e, TRUE)
             called == [probe EXCEPT !.calls = Append(@, Call("cleanup", cleanup_result))]
         IN
         IF ~IsDict(cleanup_result)
         THEN probe' = Raise(called, "AttributeError")
         ELSE probe' = [called EXCEPT !.pc = "returned",
                                      !.stages = Append(@, StageEntry("cleanup", cleanup_result))]
    /\ UNCHANGED runVars

-----------------------------------------------------------------------------
(* Specifications *)

Init == RunInit /\ probe = NoProbe

Next == Start \/ Attempt \/ Decide \/ Wake \/ MainExit

Spec == Init /\ [][Next]_vars

PolicyInit ==
    /\ pc = "Idle"
    /\ max_retries = 3
    /\ base_delay = 1
    /\ max_delay = 60
    /\ attempt = 0
    /\ result = None
    /\ last_error_code = 0
    /\ last_error_message = ""
    /\ ret = None
    /\ raised = None
    /\ trace = <<>>
    /\ sleeps = <<>>
    /\ verbose = FALSE
    /\ log = <<>>
    /\ output = None
    /\ exit_status = None
    /\ ProbeInit

PolicyNext == ProbeCategorize \/ ProbeShouldRetry

PolicySpec == PolicyInit /\ [][PolicyNext]_vars

BackoffInit ==
    /\ pc = "Idle"
    /\ max_retries = 3
    /\ base_delay = 1
    /\ max_delay = 60
    /\ attempt = 0
    /\ result = None
    /\ last_error_code = 0
    /\ last_error_message = ""
    /\ ret = None
    /\ raised = None
    /\ trace = <<>>
    /\ sleeps = <<>>
    /\ verbose = FALSE
    /\ log = <<>>
    /\ output = None
    /\ exit_status = None
    /\ BackoffProbeInit

BackoffNext == ProbeBackoff

BackoffSpec == BackoffInit /\ [][BackoffNext]_vars

\* every executor call returns and time.sleep returns: the function is
\* sequential, so a step that can be taken is taken
FairSpec == Spec /\ WF_vars(Next)

ExperimentInit ==
    /\ pc = "Idle"
    /\ max_retries = 3
    /\ base_delay = 1
    /\ max_delay = 60
    /\ attempt = 0
    /\ result = None
    /\ last_error_code = 0
    /\ last_error_message = ""
    /\ ret = None
    /\ raised = None
    /\ trace = <<>>
    /\ sleeps = <<>>
    /\ verbose = FALSE
    /\ log = <<>>
    /\ output = None
    /\ exit_status = None
    /\ ExperimentProbeInit

ExperimentNext == Connect \/ Setup \/ Experiment \/ Cleanup

ExperimentSpec == ExperimentInit /\ [][ExperimentNext]_vars

ExecutorInit ==
    /\ pc = "Idle"
    /\ max_retries = 3
    /\ base_delay = 1
    /\ max_delay = 60
    /\ attempt = 0
    /\ result = None
    /\ last_error_code = 0
    /\ last_error_message = ""
    /\ ret = None
    /\ raised = None
    /\ trace = <<>>
    /\ sleeps = <<>>
    /\ verbose = FALSE
    /\ log = <<>>
    /\ output = None
    /\ exit_status = None
    /\ ExecutorProbeInit

ExecutorNext == ProbeExecutor

ExecutorSpec == ExecutorInit /\ [][ExecutorNext]_vars

-----------------------------------------------------------------------------
(* Properties of categorize_error and should_retry, checked under          *)
(* PolicySpec                                                              *)

Categorized == probe.pc \in {"categorized", "decided"}

Decided == probe.pc = "decided"

\* C1: categorize_error is a total partition of the error codes: every code
\* gets exactly one category, Transient for {1101,1103,1105,1401,1402},
\* Resource for {1104,1204}, Auth for {1001..1004}, Code for
\* {1201,1202,1205,1206} and Unknown for every other code; the Transient,
\* Resource and non-retryable sets are pairwise disjoint; and the threshold
\* ">= 1200 is Code, else Auth" splits the non-retryable set as the two
\* listed sets do.
C1_CategorizePartition ==
    /\ Categorized =>
         /\ probe.category \in ErrorCategory
         /\ probe.category = TRANSIENT
               <=> probe.code \in {1101, 1103, 1105, 1401, 1402}
         /\ probe.category = RESOURCE <=> probe.code \in {1104, 1204}
         /\ probe.category = AUTH <=> probe.code \in {1001, 1002, 1003, 1004}
         /\ probe.category = CODE <=> probe.code \in {1201, 1202, 1205, 1206}
         /\ probe.category = UNKNOWN
               <=> probe.code \notin {1101, 1103, 1105, 1401, 1402, 1104, 1204,
                                      1001, 1002, 1003, 1004,
                                      1201, 1202, 1205, 1206}
    /\ TRANSIENT_ERROR_CODES \cap RESOURCE_ERROR_CODES = {}
    /\ TRANSIENT_ERROR_CODES \cap NON_RETRYABLE_CODES = {}
    /\ RESOURCE_ERROR_CODES \cap NON_RETRYABLE_CODES = {}
    /\ \A c \in NON_RETRYABLE_CODES :
         /\ c >= 1200 <=> c \in {1201, 1202, 1205, 1206}
         /\ c < 1200 <=> c \in {1001, 1002, 1003, 1004}

C1_Witness ==
    /\ probe.pc = "categorized"
    /\ probe.code = 1201
    /\ probe.category = CODE

\* C2: should_retry never returns true when attempt >= max_retries, whatever
\* the code's category.
C2_CeilingAlwaysWins ==
    (Decided /\ probe.attempt >= probe.max_retries) => probe.retry = FALSE

C2_Witness ==
    /\ Decided
    /\ probe.code = 1101
    /\ probe.attempt = 3
    /\ probe.max_retries = 3
    /\ probe.retry = FALSE

\* C3: for a Resource code (1104, 1204) and max_retries > 3, should_retry
\* returns true for attempts 1 and 2 and false for every attempt >= 3.
C3_ResourceCap ==
    (Decided /\ probe.code \in {1104, 1204} /\ probe.max_retries > 3) =>
        /\ probe.attempt \in {1, 2} => probe.retry = TRUE
        /\ probe.attempt >= 3 => probe.retry = FALSE

C3_Witness ==
    /\ Decided
    /\ probe.code = 1204
    /\ probe.max_retries = 10
    /\ probe.attempt = 3
    /\ probe.retry = FALSE

\* C4: for a code outside every listed set (Unknown) and max_retries > 2,
\* should_retry returns true for attempt 1 only and false for every
\* attempt >= 2.
C4_UnknownCap ==
    (/\ Decided
     /\ probe.code \notin {1101, 1103, 1105, 1401, 1402, 1104, 1204,
                           1001, 1002, 1003, 1004, 1201, 1202, 1205, 1206}
     /\ probe.max_retries > 2) =>
        /\ probe.attempt = 1 => probe.retry = TRUE
        /\ probe.attempt >= 2 => probe.retry = FALSE

C4_Witness ==
    /\ Decided
    /\ probe.code = 1203
    /\ probe.max_retries = 10
    /\ probe.attempt = 2
    /\ probe.retry = FALSE

-----------------------------------------------------------------------------
(* Properties of run_with_retry, checked under Spec.  trace[k] is the      *)
(* value run_on_colab returned to the attempt with index k.                *)

\* the attempt was a success: line 173 took the return
IsSuccess(r) == IsDict(r) /\ ResponseSucceeded(r)

\* the attempt was a failure that reached the retry decision
IsFailure(r) == IsDict(r) /\ ~ResponseSucceeded(r) /\ IsDict(ResponseError(r))

FailCode(r) == ErrorCodeOf(ResponseError(r))

FailMessage(r) == ErrorMessageOf(ResponseError(r))

FailsWithCodeIn(r, codes) == IsFailure(r) /\ FailCode(r) \in codes

\* C5: if the attempt with index k fails with an Auth or Code error code,
\* the run ends in Failed with success=false and attempts=k, and no executor
\* call and no backoff sleep follows attempt k, whatever budget remains and
\* whatever failures came before.
C5_NonRetryableStopsRun ==
    \A k \in 1 .. Len(trace) :
        FailsWithCodeIn(trace[k], {1001, 1002, 1003, 1004,
                                   1201, 1202, 1205, 1206}) =>
            /\ Len(trace) = k
            /\ Len(sleeps) = k - 1
            /\ attempt = k
            /\ pc \in {"Deciding", "Failed"}
            /\ pc = "Failed" =>
                 /\ ret # None
                 /\ ret[1].success = FALSE
                 /\ ret[1].attempts = k

C5_Witness ==
    /\ pc = "Failed"
    /\ max_retries = 5
    /\ Len(trace) = 1
    /\ FailsWithCodeIn(trace[1], {1001})
    /\ ret[1].success = FALSE
    /\ ret[1].attempts = 1
    /\ sleeps = <<>>

\* C6: if attempts 1..k-1 all fail with Transient codes and attempt k
\* succeeds, with k <= max_retries, the run returns success=true with
\* attempts=k and the result, stdout, stderr and execution time of
\* attempt k.
C6_SuccessAfterTransients ==
    \A k \in 1 .. Len(trace) :
        (/\ k <= max_retries
         /\ IsSuccess(trace[k])
         /\ \A j \in 1 .. (k - 1) :
               FailsWithCodeIn(trace[j], {1101, 1103, 1105, 1401, 1402})) =>
            /\ pc = "Succeeded"
            /\ ret # None
            /\ ret[1].success = TRUE
            /\ ret[1].attempts = k
            /\ ret[1].result =
                  (IF "result" \in DOMAIN trace[k].v
                   THEN <<trace[k].v["result"]>> ELSE <<>>)
            /\ ret[1].stdout =
                  (IF "stdout" \in DOMAIN trace[k].v
                   THEN trace[k].v["stdout"] ELSE "")
            /\ ret[1].stderr =
                  (IF "stderr" \in DOMAIN trace[k].v
                   THEN trace[k].v["stderr"] ELSE "")
            /\ ret[1].execution_time =
                  (IF "executionTime" \in DOMAIN trace[k].v
                   THEN trace[k].v["executionTime"] ELSE 0)

C6_Witness ==
    /\ pc = "Succeeded"
    /\ max_retries = 5
    /\ Len(trace) = 3
    /\ FailsWithCodeIn(trace[1], {1101})
    /\ FailsWithCodeIn(trace[2], {1101})
    /\ IsSuccess(trace[3])
    /\ ret[1].success = TRUE
    /\ ret[1].attempts = 3
    /\ ret[1].stdout = "out"

\* C7: with max_retries = n >= 1, if every attempt fails with a Transient
\* code, the run returns only after exactly n executor calls, and it returns
\* success=false with attempts=n; below n calls such a run is never Failed,
\* and with delays that time.sleep accepts nothing else ends it either.
C7_TransientUsesWholeBudget ==
    (/\ max_retries >= 1
     /\ \A k \in 1 .. Len(trace) :
           FailsWithCodeIn(trace[k], {1101, 1103, 1105, 1401, 1402})) =>
        /\ Len(trace) <= max_retries
        /\ ~(pc = "Succeeded")
        /\ (base_delay >= 0 /\ max_delay >= 0) => pc # "Raised"
        /\ pc = "Failed" =>
             /\ Len(trace) = max_retries
             /\ ret # None
             /\ ret[1].success = FALSE
             /\ ret[1].attempts = max_retries

C7_Witness ==
    /\ pc = "Failed"
    /\ max_retries = 5
    /\ Len(trace) = 5
    /\ \A k \in 1 .. 5 : FailsWithCodeIn(trace[k], {1101})
    /\ ret[1].success = FALSE
    /\ ret[1].attempts = 5

\* C8: whenever the run returns success=false, the error code and message it
\* reports are those of the last attempt executed, the attempt whose index is
\* the returned attempts count.
C8_ReportsLastError ==
    (ret # None /\ ret[1].success = FALSE) =>
        /\ ret[1].attempts = Len(trace)
        /\ ret[1].attempts >= 1
        /\ IsFailure(trace[ret[1].attempts])
        /\ ret[1].error_code = <<FailCode(trace[ret[1].attempts])>>
        /\ ret[1].error_message = <<FailMessage(trace[ret[1].attempts])>>

C8_Witness ==
    /\ ret # None
    /\ ret[1].success = FALSE
    /\ ret[1].attempts = 3
    /\ FailsWithCodeIn(trace[1], {1101}) /\ FailMessage(trace[1]) = "m1"
    /\ FailsWithCodeIn(trace[2], {1101}) /\ FailMessage(trace[2]) = "m2"
    /\ FailsWithCodeIn(trace[3], {1104}) /\ FailMessage(trace[3]) = "m1"
    /\ ret[1].error_code = <<1104>>
    /\ ret[1].error_message = <<"m1">>

\* C9: once an attempt returns success the run returns at once: no executor
\* call and no backoff sleep follows the first successful attempt, and the
\* returned attempts count is the index of that attempt.
C9_SuccessReturnsImmediately ==
    \A k \in 1 .. Len(trace) :
        IsSuccess(trace[k]) =>
            /\ Len(trace) = k
            /\ Len(sleeps) = k - 1
            /\ pc = "Succeeded"
            /\ ret # None
            /\ ret[1].success = TRUE
            /\ ret[1].attempts = k

C9_Witness ==
    /\ pc = "Succeeded"
    /\ Len(trace) = 2
    /\ IsSuccess(trace[2])
    /\ Len(sleeps) = 1
    /\ ret[1].attempts = 2
    /\ max_retries = 4

\* C10: run_with_retry never raises to its caller, for every max_retries
\* (0 and negative included), every base_delay and max_delay and every
\* sequence of executor outcomes.
C10_NeverRaises == pc # "Raised" /\ raised = None

\* C11: every ExecutionResult returned by run_with_retry is well formed: with
\* success=true error_code and error_message are None; with success=false
\* error_message is a non-empty string and attempts is >= 1 and is the number
\* of executor calls made, whatever failure response the collaborator gave
\* (an empty or missing message, a missing error object).
C11_ResultWellFormed ==
    ret # None =>
        /\ ret[1].success = TRUE =>
             /\ ret[1].error_code = None
             /\ ret[1].error_message = None
        /\ ret[1].success = FALSE =>
             /\ ret[1].error_message # None
             /\ ret[1].error_message # <<"">>
             /\ ret[1].attempts >= 1
             /\ ret[1].attempts = Len(trace)

-----------------------------------------------------------------------------
(* Properties of the backoff delay, checked under BackoffSpec *)

RECURSIVE TwoToThe(_)
TwoToThe(n) == IF n <= 0 THEN 1 ELSE 2 * TwoToThe(n - 1)

C13_FirstDelayIsBase ==
    /\ Len(probe.delays) >= 1 => probe.delays[1] = probe.base_delay
    /\ \A k \in 1 .. (Len(probe.delays) - 1) :
          /\ probe.delays[k + 1] =
                (IF probe.delays[k] = probe.max_delay THEN probe.max_delay
                 ELSE Min(2 * probe.delays[k], probe.max_delay))
          /\ probe.delays[k] <= probe.delays[k + 1]
    /\ \A k \in 1 .. Len(probe.delays) : probe.delays[k] <= probe.max_delay

\* C13 amended: the delay after attempt 1 equals min(base_delay, max_delay),
\* which is base_delay only when base_delay <= max_delay; the rest as stated.
C13_FirstDelayIsCappedBase ==
    /\ Len(probe.delays) >= 1 =>
          /\ probe.delays[1] = Min(probe.base_delay, probe.max_delay)
          /\ probe.base_delay <= probe.max_delay =>
                probe.delays[1] = probe.base_delay
    /\ \A k \in 1 .. (Len(probe.delays) - 1) :
          /\ probe.delays[k + 1] =
                (IF probe.delays[k] = probe.max_delay THEN probe.max_delay
                 ELSE Min(2 * probe.delays[k], probe.max_delay))
          /\ probe.delays[k] <= probe.delays[k + 1]
    /\ \A k \in 1 .. Len(probe.delays) : probe.delays[k] <= probe.max_delay

C13_Witness ==
    /\ probe.base_delay = 3
    /\ probe.max_delay = 4
    /\ Len(probe.delays) = 3
    /\ probe.delays = <<3, 4, 4>>

-----------------------------------------------------------------------------
(* Further properties of run_with_retry and main, checked under Spec *)

\* C14: the exit status of the command is zero when the run succeeded and
\* non-zero when it ended in failure, with and without --json.
C14_ExitStatusReflectsOutcome ==
    (exit_status # None /\ ret # None) =>
        (exit_status = <<0>> <=> ret[1].success = TRUE)

\* What the run with verbose=false does after the call of index k, as a
\* function of the parameters and of the executor's outcomes: it raises,
RaisesAt(k) ==
    \/ ~IsDict(trace[k])
    \/ /\ ~ResponseSucceeded(trace[k])
       /\ \/ ~IsDict(ResponseError(trace[k]))
          \/ k < max_retries /\ ~Hashable(FailCode(trace[k]))
          \/ /\ should_retry(FailCode(trace[k]), k, max_retries)
             /\ BackoffDelay(k, base_delay, max_delay) < 0

\* or returns a result or raises
StopsAt(k) ==
    \/ RaisesAt(k)
    \/ ResponseSucceeded(trace[k])
    \/ ~should_retry(FailCode(trace[k]), k, max_retries)

LastCall == trace[Len(trace)]

\* C15: progress reporting is purely additive.  Every run, verbose or not,
\* makes the executor calls and the sleeps of the run with verbose=false on
\* the same parameters and executor outcomes, and ends as that run ends:
\* with the same ExecutionResult, or the same exception.
C15_VerboseIsAdditive ==
    /\ \A k \in 1 .. (Len(trace) - 1) : ~StopsAt(k)
    /\ pc = "Attempting" => Len(trace) = attempt - 1
    /\ pc \in {"Deciding", "Backoff", "Succeeded", "Failed"} =>
          Len(trace) = attempt
    /\ pc = "Backoff" => ~StopsAt(Len(trace))
    /\ (pc \in {"Succeeded", "Failed", "Raised"} /\ trace # <<>>) =>
          StopsAt(Len(trace))
    /\ (pc = "Raised" /\ trace = <<>>) => max_retries < 1
    /\ (pc = "Raised" /\ trace # <<>>) => RaisesAt(Len(trace))
    /\ pc \in {"Succeeded", "Failed"} => ~RaisesAt(Len(trace))
    /\ pc = "Succeeded" =>
          ret = <<SuccessResult(LastCall.v, Len(trace))>>
    /\ pc = "Failed" =>
          ret = <<FailureResult(FailCode(LastCall), FailMessage(LastCall),
                                Len(trace))>>
    /\ pc \notin {"Succeeded", "Failed"} => ret = None
    /\ Len(sleeps) = (IF pc \in {"Idle", "Deciding", "Succeeded", "Failed",
                                 "Raised"} /\ trace # <<>>
                      THEN Len(trace) - 1 ELSE Len(trace))
    /\ \A k \in 1 .. Len(sleeps) :
          sleeps[k] = BackoffDelay(k, base_delay, max_delay)

SynthesizedFailures ==
    { run_on_colab(e) : e \in { x \in Endings :
                                  x.kind # "exit" \/ ~x.stdout.valid } }

\* C16: the failures run_on_colab makes up use code 1203 (timeout) and code 0
\* (undecodable output, failed invocation); neither code is in a declared
\* set, both classify as Unknown, and a run with max_retries >= 1 whose
\* attempts all end in such a failure makes exactly min(2, max_retries)
\* attempts and returns success=false with the code of the last one.
C16_SynthesizedFailuresAreUnknown ==
    /\ \A r \in SynthesizedFailures :
          /\ IsFailure(r)
          /\ FailCode(r) =
                (IF FailMessage(r) = "Execution timeout" THEN 1203 ELSE 0)
          /\ FailCode(r) \notin
                {1101, 1103, 1105, 1401, 1402, 1104, 1204,
                 1001, 1002, 1003, 1004, 1201, 1202, 1205, 1206}
          /\ categorize_error(FailCode(r)) = UNKNOWN
    /\ (/\ max_retries >= 1
        /\ \A k \in 1 .. Len(trace) : trace[k] \in SynthesizedFailures) =>
          /\ Len(trace) <= Min(2, max_retries)
          /\ pc # "Succeeded"
          /\ (base_delay >= 0 /\ max_delay >= 0) => pc # "Raised"
          /\ pc = "Failed" =>
                /\ Len(trace) = Min(2, max_retries)
                /\ ret[1].success = FALSE
                /\ ret[1].attempts = Min(2, max_retries)
                /\ ret[1].error_code = <<FailCode(LastCall)>>
                /\ ret[1].error_code \in {<<1203>>, <<0>>}

C16_Witness ==
    /\ pc = "Failed"
    /\ max_retries = 5
    /\ Len(trace) = 2
    /\ FailMessage(trace[1]) = "Execution timeout"
    /\ FailCode(trace[1]) = 1203
    /\ trace[2] \in SynthesizedFailures
    /\ FailCode(trace[2]) = 0
    /\ ret[1].success = FALSE
    /\ ret[1].attempts = 2
    /\ ret[1].error_code = <<0>>

\* C18: every response of the collaborator that is not of the expected
\* shape (an object without a success field or without an error object, a
\* JSON value that is not an object) is a failed attempt that enters the
\* retry decision with a code and a message.
C18_IllShapedIsFailedAttempt ==
    /\ \A k \in 1 .. Len(trace) : ~IsSuccess(trace[k]) => IsFailure(trace[k])
    /\ raised # Some("AttributeError")

\* C19: the attempt index is 1 at the first executor call and one more at
\* each following call: a step that calls the executor makes the call number
\* Len(trace) + 1 under the index of that number and leaves the index alone,
\* and a step that changes the index adds exactly 1 and calls nothing.
C19_AttemptIndexCounts ==
    [][ /\ (trace' # trace) =>
              /\ pc = "Attempting"
              /\ trace' = Append(trace, trace'[Len(trace')])
              /\ attempt = Len(trace')
              /\ attempt' = attempt
        /\ (attempt' # attempt) =>
              /\ attempt' = attempt + 1
              /\ attempt = Len(trace)
              /\ trace' = trace
              /\ pc' = "Attempting" ]_vars

C19_Witness ==
    /\ pc = "Deciding"
    /\ attempt = 3
    /\ Len(trace) = 3
    /\ Len(sleeps) = 2

\* the states of the run as the transition diagram names them: the sleep
\* belongs to the edge from Deciding to Attempting
Phase(p) == IF p = "Backoff" THEN "Deciding" ELSE p

\* C20: a run takes only the transitions Idle -> Attempting, Attempting ->
\* Succeeded, Attempting -> Deciding, Deciding -> Attempting and Deciding ->
\* Failed; Succeeded and Failed are terminal, and a run that has ended has
\* produced exactly one outcome.
C20_OnlyListedTransitions ==
    [][ /\ (Phase(pc') # Phase(pc)) =>
              <<Phase(pc), Phase(pc')>> \in
                  { <<"Idle", "Attempting">>, <<"Attempting", "Succeeded">>,
                    <<"Attempting", "Deciding">>, <<"Deciding", "Attempting">>,
                    <<"Deciding", "Failed">> }
        /\ (pc \in {"Succeeded", "Failed"}) => (pc' = pc /\ ret' = ret)
        /\ (pc' \notin {"Idle", "Attempting", "Deciding", "Backoff"}) =>
              Len(ret') = 1 ]_vars

PayloadKeys == {"result", "stdout", "stderr", "executionTime"}

JsonPrinted == output # None /\ output[1].mode = "json"

\* C21 as stated: the --json output of a failed run carries success=false,
\* an error object {code, message} and attempts instead of the payload
\* fields; the output of a successful run carries the payload fields and
\* attempts and no error object.
C21_FailureEnvelopeReplacesPayload ==
    JsonPrinted =>
        /\ output[1].doc.success = ret[1].success
        /\ output[1].doc.attempts = ret[1].attempts
        /\ ret[1].success =>
              DOMAIN output[1].doc = {"success", "attempts"} \cup PayloadKeys
        /\ ~ret[1].success =>
              /\ DOMAIN output[1].doc = {"success", "attempts", "error"}
              /\ DOMAIN output[1].doc.error = {"code", "message"}

\* C21 amended: the --json output of a failed run carries success=false, an
\* error object {code, message} with the code and message of the result and
\* attempts, next to the payload fields, which hold their defaults (result
\* null, stdout and stderr empty, executionTime 0); the output of a
\* successful run carries the payload of the result and attempts and no
\* error object.
C21_FailureEnvelopeKeepsPayload ==
    JsonPrinted =>
        /\ pc \in {"Succeeded", "Failed"}
        /\ output[1].doc.success = ret[1].success
        /\ output[1].doc.attempts = ret[1].attempts
        /\ output[1].doc.attempts = Len(trace)
        /\ ret[1].success =>
              /\ DOMAIN output[1].doc = {"success", "attempts"} \cup PayloadKeys
              /\ output[1].doc.success = TRUE
              /\ output[1].doc.result = ret[1].result
              /\ output[1].doc.stdout = ret[1].stdout
              /\ output[1].doc.stderr = ret[1].stderr
              /\ output[1].doc.executionTime = ret[1].execution_time
        /\ ~ret[1].success =>
              /\ DOMAIN output[1].doc =
                    {"success", "attempts", "error"} \cup PayloadKeys
              /\ output[1].doc.success = FALSE
              /\ DOMAIN output[1].doc.error = {"code", "message"}
              /\ output[1].doc.error.code = ret[1].error_code
              /\ output[1].doc.error.message = ret[1].error_message
              /\ output[1].doc.result = None
              /\ output[1].doc.stdout = ""
              /\ output[1].doc.stderr = ""
              /\ output[1].doc.executionTime = 0

C21_Witness ==
    /\ JsonPrinted
    /\ pc = "Failed"
    /\ output[1].doc.success = FALSE
    /\ output[1].doc.attempts = 2
    /\ output[1].doc.error = [code |-> <<1001>>, message |-> <<"m2">>]
    /\ output[1].doc.stdout = ""
    /\ exit_status = <<0>>

\* C22: in every terminated run the number of backoff sleeps is attempts - 1.
\* A sleep happens only after an executor call and before the next one: when
\* the run sleeps there has been one sleep per call and budget is left for
\* the call that follows; at the decision and at the end of the run, whether
\* by a success, by a failure that is not retried or by the attempt that
\* reaches max_retries, the last call has no sleep after it.
C22_SleepsBetweenCalls ==
    /\ pc \in {"Succeeded", "Failed"} =>
          /\ ret[1].attempts = Len(trace)
          /\ Len(sleeps) = ret[1].attempts - 1
    /\ pc = "Backoff" =>
          /\ Len(sleeps) = Len(trace)
          /\ attempt = Len(trace)
          /\ attempt + 1 <= max_retries
    /\ pc = "Attempting" => Len(sleeps) = Len(trace)
    /\ pc = "Deciding" => Len(sleeps) = Len(trace) - 1
    /\ (pc = "Raised" /\ trace # <<>>) => Len(sleeps) = Len(trace) - 1
    /\ (pc = "Raised" /\ trace = <<>>) => sleeps = <<>>

C22_Witness ==
    /\ pc = "Failed"
    /\ max_retries = 5
    /\ ret[1].attempts = 5
    /\ Len(trace) = 5
    /\ sleeps = <<1, 2, 4, 8>>

IsTransientFailure(r) == FailsWithCodeIn(r, {1101, 1103, 1105, 1401, 1402})

IsResourceFailure(r) == FailsWithCodeIn(r, {1104, 1204})

IsUnknownFailure(r) ==
    /\ IsFailure(r)
    /\ Hashable(FailCode(r))
    /\ FailCode(r) \notin {1101, 1103, 1105, 1401, 1402, 1104, 1204,
                           1001, 1002, 1003, 1004, 1201, 1202, 1205, 1206}

\* C23: the Resource and Unknown caps apply to the attempt index of the run:
\* a Resource failure at index >= 3 and an Unknown failure at index >= 2 are
\* the last call of the run, which ends in Failed with that index, whatever
\* the earlier failures were.  So every attempt with index >= 4 comes right
\* after a Transient failure, and attempt 3 right after a Transient or
\* Resource failure.
C23_CapsUseAttemptIndex ==
    /\ \A k \in 1 .. Len(trace) :
          ((k >= 3 /\ IsResourceFailure(trace[k]))
             \/ (k >= 2 /\ IsUnknownFailure(trace[k]))) =>
              /\ Len(trace) = k
              /\ Len(sleeps) = k - 1
              /\ pc \in {"Deciding", "Failed"}
              /\ pc = "Failed" =>
                    (ret[1].success = FALSE /\ ret[1].attempts = k)
    /\ \A k \in 1 .. max_retries :
          (k <= Len(trace) \/ (pc = "Attempting" /\ k = attempt)) =>
              /\ k >= 4 => IsTransientFailure(trace[k - 1])
              /\ k = 3 => (IsTransientFailure(trace[2])
                             \/ IsResourceFailure(trace[2]))

C23_Witness ==
    /\ pc = "Failed"
    /\ max_retries = 5
    /\ Len(trace) = 3
    /\ IsTransientFailure(trace[1])
    /\ IsTransientFailure(trace[2])
    /\ IsResourceFailure(trace[3])
    /\ ret[1].attempts = 3
    /\ ret[1].error_code = <<1104>>

Terminated == pc \in {"Succeeded", "Failed", "Raised"}

\* C24: provided every executor call returns, a run with max_retries >= 1
\* terminates after at least 1 and at most max_retries executor calls,
\* whatever the executor's outcomes; the number of calls never exceeds
\* max_retries.
C24_TerminatesWithinBudget ==
    /\ [](max_retries >= 1 => Len(trace) <= max_retries)
    /\ [](max_retries >= 1 /\ Terminated => Len(trace) >= 1)
    /\ (max_retries >= 1) ~> Terminated

C24_Witness ==
    /\ pc = "Failed"
    /\ max_retries = 4
    /\ Len(trace) = 4
    /\ ret[1].attempts = 4

-----------------------------------------------------------------------------
(* The docstring of run_with_retry against line 203, checked under        *)
(* BackoffSpec                                                             *)

-----------------------------------------------------------------------------
(* Properties of run_on_colab alone, checked under ExecutorSpec *)

FailingEnding(e) == e.kind # "exit" \/ ~e.stdout.valid

\* C17: however the external call ends (the process cannot start, the
\* subprocess times out, any other exception, output that does not decode),
\* run_on_colab returns a value, and that value is a dict with success false
\* and an error dict carrying a code and a message.
C17_FailuresAreNormalized ==
    probe.pc = "returned" =>
        /\ Len(probe.out) = 1
        /\ FailingEnding(probe.ending) =>
              /\ IsDict(probe.out[1])
              /\ DOMAIN probe.out[1].v \in
                    { {"success", "error"}, {"success", "error", "stderr"} }
              /\ probe.out[1].v.success = FALSE
              /\ IsDict(probe.out[1].v.error)
              /\ DOMAIN probe.out[1].v.error.v = {"code", "message"}
              /\ probe.out[1].v.error.v.code \in {0, 1203}
              /\ Len(probe.out[1].v.error.v.message) <= 23 + 200
        /\ ~FailingEnding(probe.ending) =>
              probe.out[1] = probe.ending.stdout.value

C17_Witness ==
    /\ probe.pc = "returned"
    /\ probe.ending.kind = "exit"
    /\ ~probe.ending.stdout.valid
    /\ probe.ending.stdout.text = LongStdout
    /\ probe.ending.stderr = "crash"
    /\ probe.out[1].v.success = FALSE
    /\ probe.out[1].v.error.v.code = 0
    /\ probe.out[1].v.error.v.message =
          "Invalid JSON response: " \o Repeat("0123456789", 20)
    /\ probe.out[1].v.stderr = "crash"

-----------------------------------------------------------------------------
(* Properties of run_experiment, checked under ExperimentSpec *)

Ran(stage) == \E i \in 1 .. Len(probe.calls) : probe.calls[i].stage = stage

\* the command of the stage was run and reported success
StageSucceeded(stage) ==
    \E i \in 1 .. Len(probe.calls) :
        /\ probe.calls[i].stage = stage
        /\ IsDict(probe.calls[i].response)
        /\ Get(probe.calls[i].response.v, "success", FALSE)

ConnectionSucceeded ==
    \/ \E i \in 1 .. Len(probe.calls) :
          /\ probe.calls[i].stage = "status"
          /\ IsDict(probe.calls[i].response)
          /\ Get(probe.calls[i].response.v, "connected", FALSE)
    \/ StageSucceeded("connect")

StageRank(stage) ==
    CASE stage = "status" -> 0
      [] stage = "connect" -> 1
      [] stage = "setup" -> 2
      [] stage = "experiment" -> 3
      [] stage = "cleanup" -> 4

\* C25: the stages run in the order connect, setup, experiment, cleanup;
\* setup runs only if the connection succeeded and the experiment only if
\* setup succeeded; when run_experiment has ended, cleanup has run if and
\* only if cleanup code was given (a non-empty text) and setup succeeded,
\* also when the experiment failed, and the success flag it returns is true
\* if and only if the experiment ran and succeeded, whatever cleanup did.
C25_StageGates ==
    /\ \A i, j \in 1 .. Len(probe.calls) :
          i < j => StageRank(probe.calls[i].stage) < StageRank(probe.calls[j].stage)
    /\ Ran("setup") => ConnectionSucceeded
    /\ Ran("experiment") => StageSucceeded("setup")
    /\ probe.pc \in {"returned", "raised"} =>
          (Ran("cleanup") <=> (CleanupGiven(probe) /\ StageSucceeded("setup")))
    /\ probe.pc = "returned" =>
          (probe.success <=> StageSucceeded("experiment"))

====
